---- MODULE Spec2Model ----
(***************************************************************************)
(* order_includes (src/main.cpp): sorts the grouped import block of a Go   *)
(* file.  A std::string is a sequence of character codes (ASCII), so that  *)
(* std::isspace, std::string::find and operator< are computed on the       *)
(* characters as the code computes them.  A file is a sequence of lines.   *)
(* Iterators into `lines` are 0-based offsets from lines.begin().          *)
(***************************************************************************)
EXTENDS Integers, Sequences, FiniteSets

VARIABLES
    file,        \* the lines of the file on disk
    input,       \* the lines the file held when the current run started
    lines,       \* formatFile's buffer `lines`
    begin,       \* formatFile's `begin` (offset into lines)
    end,         \* formatFile's `end`
    includeBegin,\* the renderer's re-located `includeBegin`
    includeEnd,  \* the renderer's re-located `includeEnd`
    status,      \* Result::m_result_message of the current run ("" while running)
    pc,          \* position inside formatFile
    run,         \* 1: first invocation on the file, 2: second invocation
    types,       \* comparator harness: moduleType of each drawn line
    less         \* comparator harness: cmp over each pair of drawn lines

vars == <<file, input, lines, begin, end, includeBegin, includeEnd, status, pc,
          run, types, less>>

----------------------------------------------------------------------------
(* Bounds of the model. *)

\* longest input file, in lines
MaxLines == 5

\* how many lines the comparator harness draws
CmpLines == 3

----------------------------------------------------------------------------
(* Program constants. *)

\* g_deleted_line = "${THIS_LINE_IS_DELETED}"
g_deleted_line ==
    <<36, 123, 84, 72, 73, 83, 95, 76, 73, 78, 69, 95, 73, 83, 95, 68, 69, 76,
      69, 84, 69, 68, 125>>

\* enum class ModuleType { StdLib, Platform, ThirdParty, None }
StdLib == 0
Platform == 1
ThirdParty == 2
None == 3

----------------------------------------------------------------------------
(* Lines the inputs are drawn from. *)

\* `import (`
L_import == <<105, 109, 112, 111, 114, 116, 32, 40>>
\* `)`
L_close == <<41>>
\* `"fmt"`
L_fmt == <<34, 102, 109, 116, 34>>
\* `j "fmt"` (an aliased import)
L_jfmt == <<106, 32, 34, 102, 109, 116, 34>>
\* `"os"`
L_os == <<34, 111, 115, 34>>
\* `"platform/z"`
L_platform == <<34, 112, 108, 97, 116, 102, 111, 114, 109, 47, 122, 34>>
\* `"github.com/x"`
L_github == <<34, 103, 105, 116, 104, 117, 98, 46, 99, 111, 109, 47, 120, 34>>
\* `"gopkg.in/y"`
L_gopkg == <<34, 103, 111, 112, 107, 103, 46, 105, 110, 47, 121, 34>>
\* `"golang.org/x"`
L_golang == <<34, 103, 111, 108, 97, 110, 103, 46, 111, 114, 103, 47, 120, 34>>
\* `"pault.ag/g"`
L_pault == <<34, 112, 97, 117, 108, 116, 46, 97, 103, 47, 103, 34>>
\* the empty line
L_empty == <<>>
\* a line holding one tab
L_tab == <<9>>
\* `// c`
L_comment == <<47, 47, 32, 99>>
\* `// "github.com/x"` (a commented-out import)
L_cgithub == <<47, 47, 32, 34, 103, 105, 116, 104, 117, 98, 46, 99, 111, 109, 47, 120, 34>>
\* `// "platform/z"`
L_cplatform == <<47, 47, 32, 34, 112, 108, 97, 116, 102, 111, 114, 109, 47, 122, 34>>

\* Lines of the input files.  The sentinel text is not among them: the file
\* is source text, and g_deleted_line is reserved for lines dropped in memory.
\* The blank line of the inputs is the tab line; empty lines are read back in
\* the second run, where the separators of the first run are input.
FilePool ==
    {L_import, L_close, L_fmt, L_jfmt, L_platform, L_github, L_tab, L_comment}

\* Lines handed to moduleType and cmp by the comparator harness.
Universe ==
    {L_import, L_close, L_fmt, L_jfmt, L_os, L_platform, L_github, L_gopkg,
     L_golang, L_pault, L_empty, L_tab, L_comment, L_cgithub, L_cplatform,
     g_deleted_line}

\* Every sequence over S of length at most n.
SeqsUpTo(S, n) == UNION {[1..k -> S] : k \in 0..n}

----------------------------------------------------------------------------
(* String helpers. *)

\* std::isspace in the "C" locale: space, \t, \n, \v, \f, \r
isspace(ch) == ch \in {32, 9, 10, 11, 12, 13}

\* pat occurs in str at offset i
occursAt(str, pat, i) ==
    /\ i + Len(pat) <= Len(str)
    /\ \A k \in 1..Len(pat) : str[i + k] = pat[k]

\* the offsets at which pat occurs in str (str.find(pat) is the least one,
\* npos when there is none)
Occurrences(str, pat) ==
    {i \in 0..(Len(str) - Len(pat)) : occursAt(str, pat, i)}

Least(S) == CHOOSE x \in S : \A y \in S : x <= y

\* str.find(pat) != std::string::npos
found(str, pat) ==
    \E i \in 0..(Len(str) - Len(pat)) : occursAt(str, pat, i)

\* std::string operator< : lexicographic on the character codes
strLess(a, b) ==
    \E k \in 1..(Len(a) + 1) :
        /\ k <= Len(b)
        /\ \A j \in 1..(k - 1) : a[j] = b[j]
        /\ (k = Len(a) + 1 \/ a[k] < b[k])

removeSpaces(str) == SelectSeq(str, LAMBDA ch : ~isspace(ch))

removeComments(str) ==
    LET commentBegin == Occurrences(str, <<47, 47>>)
    IN  IF commentBegin = {} THEN str
        ELSE SubSeq(str, 1, Least(commentBegin))

----------------------------------------------------------------------------
(* The functions of src/main.cpp. *)

\* is the line, without spaces and comment, exactly pat?
delimiter(line, pat) == removeComments(removeSpaces(line)) = pat

\* the first loop of findIncludes, from offset i: the offset after the first
\* `import(` line, or the size when there is none
RECURSIVE afterOpen(_, _)
afterOpen(ls, i) ==
    IF i >= Len(ls) THEN Len(ls)
    ELSE IF delimiter(ls[i + 1], <<105, 109, 112, 111, 114, 116, 40>>) THEN i + 1
    ELSE afterOpen(ls, i + 1)

\* the second loop of findIncludes, from offset i: the offset of the first
\* `)` line, or the size when there is none
RECURSIVE closeFrom(_, _)
closeFrom(ls, i) ==
    IF i >= Len(ls) THEN Len(ls)
    ELSE IF delimiter(ls[i + 1], <<41>>) THEN i
    ELSE closeFrom(ls, i + 1)

\* the first loop of findIncludes, had it lacked the `++begin` before `break`
RECURSIVE atOpen(_, _)
atOpen(ls, i) ==
    IF i >= Len(ls) THEN Len(ls)
    ELSE IF delimiter(ls[i + 1], <<105, 109, 112, 111, 114, 116, 40>>) THEN i
    ELSE atOpen(ls, i + 1)

\* findIncludes, had it left `begin` on the `import(` line
findIncludes_NoSkip(ls) == <<atOpen(ls, 0), closeFrom(ls, atOpen(ls, 0))>>

\* findIncludes: <<begin, end>> as offsets into ls
findIncludes(ls) == <<afterOpen(ls, 0), closeFrom(ls, afterOpen(ls, 0))>>

\* deleteEmptyLines, had it run over the whole vector
deleteEmptyLines_WholeFile(ls, b, e) ==
    [i \in 1..Len(ls) |->
        IF ls[i] = <<>> THEN g_deleted_line
        ELSE IF \A k \in 1..Len(ls[i]) : isspace(ls[i][k])
             THEN g_deleted_line
             ELSE ls[i]]

\* deleteEmptyLines, had it deleted the comment lines as well
deleteEmptyLines_AlsoComments(ls, b, e) ==
    [i \in 1..Len(ls) |->
        IF b <= i - 1 /\ i - 1 < e
        THEN IF ls[i] = <<>> THEN g_deleted_line
             ELSE IF \A k \in 1..Len(ls[i]) : isspace(ls[i][k])
                  THEN g_deleted_line
                  ELSE IF occursAt(removeSpaces(ls[i]), <<47, 47>>, 0)
                       THEN g_deleted_line
                       ELSE ls[i]
        ELSE ls[i]]

\* deleteEmptyLines over [b, e)
deleteEmptyLines(ls, b, e) ==
    [i \in 1..Len(ls) |->
        IF b <= i - 1 /\ i - 1 < e
        THEN IF ls[i] = <<>> THEN g_deleted_line
             ELSE IF \A k \in 1..Len(ls[i]) : isspace(ls[i][k])
                  THEN g_deleted_line
                  ELSE ls[i]
        ELSE ls[i]]

isThirdPartyModule(str) ==
    \/ found(str, <<34, 103, 105, 116, 104, 117, 98, 46, 99, 111, 109, 47>>)
    \/ found(str, <<34, 103, 111, 112, 107, 103, 46, 105, 110, 47>>)
    \/ found(str, <<34, 103, 111, 108, 97, 110, 103, 46, 111, 114, 103, 47>>)
    \/ found(str, <<34, 112, 97, 117, 108, 116, 46, 97, 103, 47>>)

isPlatformModule(str) ==
    found(str, <<34, 112, 108, 97, 116, 102, 111, 114, 109, 47>>)

isStdLibModule(str) ==
    IF str = <<>> THEN FALSE
    ELSE IF \A k \in 1..Len(str) : isspace(str[k]) THEN FALSE
    ELSE IF str = g_deleted_line THEN FALSE
    ELSE IF isThirdPartyModule(str) THEN FALSE
    ELSE IF isPlatformModule(str) THEN FALSE
    ELSE IF occursAt(removeSpaces(str), <<47, 47>>, 0) THEN FALSE
    ELSE TRUE

\* moduleType, had it tested for a comment line before the substrings
moduleType_CommentFirst(str) ==
    IF occursAt(removeSpaces(str), <<47, 47>>, 0) THEN None
    ELSE IF isThirdPartyModule(str) THEN ThirdParty
    ELSE IF isPlatformModule(str) THEN Platform
    ELSE IF isStdLibModule(str) THEN StdLib
    ELSE None

moduleType(str) ==
    IF isThirdPartyModule(str) THEN ThirdParty
    ELSE IF isPlatformModule(str) THEN Platform
    ELSE IF isStdLibModule(str) THEN StdLib
    ELSE None

\* removeUserModuleName, had it kept the alias
removeUserModuleName_KeepsAlias(str) == str

removeUserModuleName(str) ==
    LET quoteBegin == Occurrences(str, <<34>>)
    IN  IF quoteBegin = {} THEN str
        ELSE SubSeq(str, Least(quoteBegin) + 1, Len(str))

\* cmp, had it compared the module types the other way round
cmp_TypeReversed(lhs, rhs) ==
    IF lhs = g_deleted_line /\ rhs = g_deleted_line THEN FALSE
    ELSE IF lhs = g_deleted_line THEN FALSE
    ELSE IF rhs = g_deleted_line THEN TRUE
    ELSE LET lhsType == moduleType(lhs)
             rhsType == moduleType(rhs)
         IN  IF lhsType # rhsType THEN lhsType > rhsType
             ELSE strLess(removeUserModuleName(removeSpaces(lhs)),
                          removeUserModuleName(removeSpaces(rhs)))

\* cmp, had it answered `true` for a deleted left-hand side
cmp_DeletedFirst(lhs, rhs) ==
    IF lhs = g_deleted_line /\ rhs = g_deleted_line THEN FALSE
    ELSE IF lhs = g_deleted_line THEN TRUE
    ELSE IF rhs = g_deleted_line THEN FALSE
    ELSE LET lhsType == moduleType(lhs)
             rhsType == moduleType(rhs)
         IN  IF lhsType # rhsType THEN lhsType < rhsType
             ELSE strLess(removeUserModuleName(removeSpaces(lhs)),
                          removeUserModuleName(removeSpaces(rhs)))

cmp(lhs, rhs) ==
    IF lhs = g_deleted_line /\ rhs = g_deleted_line THEN FALSE
    ELSE IF lhs = g_deleted_line THEN FALSE
    ELSE IF rhs = g_deleted_line THEN TRUE
    ELSE LET lhsType == moduleType(lhs)
             rhsType == moduleType(rhs)
         IN  IF lhsType # rhsType THEN lhsType < rhsType
             ELSE strLess(removeUserModuleName(removeSpaces(lhs)),
                          removeUserModuleName(removeSpaces(rhs)))

\* s without its i-th element
Without(s, i) == SubSeq(s, 1, i - 1) \o SubSeq(s, i + 1, Len(s))

\* std::sort(first, last, cmp) is not stable: every arrangement of s in which
\* no element is cmp-less than an earlier one is an outcome it may produce.
RECURSIVE sortOutcomes(_)
sortOutcomes(s) ==
    IF s = <<>> THEN {<<>>}
    ELSE UNION {
        {<<s[i]>> \o t : t \in sortOutcomes(Without(s, i))} :
            i \in {m \in 1..Len(s) : \A j \in 1..Len(s) : ~cmp(s[j], s[m])}}

withinIncludes(i, b, e) == i >= b /\ i < e

\* the loop body, had it not tested the module types for None
written_NoNoneTest(ls, i, ib, ie) ==
    (IF ls[i + 1] # g_deleted_line THEN <<ls[i + 1]>> ELSE <<>>)
    \o
    (IF /\ ls[i + 1] # g_deleted_line
        /\ i # Len(ls) - 1
        /\ ls[i + 2] # g_deleted_line
        /\ withinIncludes(i, ib, ie)
        /\ withinIncludes(i + 1, ib, ie)
     THEN IF moduleType(ls[i + 1]) # moduleType(ls[i + 2])
          THEN <<L_empty>>
          ELSE <<>>
     ELSE <<>>)

\* what the loop body of writeWithoutDeletedLinesAndWithSeparatedGroups
\* writes for index i
written(ls, i, ib, ie) ==
    (IF ls[i + 1] # g_deleted_line THEN <<ls[i + 1]>> ELSE <<>>)
    \o
    (IF /\ ls[i + 1] # g_deleted_line
        /\ i # Len(ls) - 1
        /\ ls[i + 2] # g_deleted_line
        /\ withinIncludes(i, ib, ie)
        /\ withinIncludes(i + 1, ib, ie)
     THEN LET moduleTypeCurrent == moduleType(ls[i + 1])
              moduleTypeNext == moduleType(ls[i + 2])
          IN  IF /\ moduleTypeCurrent # None
                 /\ moduleTypeNext # None
                 /\ moduleTypeCurrent # moduleTypeNext
              THEN <<L_empty>>
              ELSE <<>>
     ELSE <<>>)

\* the lines the renderer writes for indices i .. size-1
RECURSIVE writeFrom(_, _, _, _)
writeFrom(ls, i, ib, ie) ==
    IF i >= Len(ls) THEN <<>>
    ELSE written(ls, i, ib, ie) \o writeFrom(ls, i + 1, ib, ie)

----------------------------------------------------------------------------
(* formatFile, step by step. *)

Init ==
    /\ file \in SeqsUpTo(FilePool, MaxLines)
    /\ input = file
    /\ lines = <<>>
    /\ begin = 0
    /\ end = 0
    /\ includeBegin = 0
    /\ includeEnd = 0
    /\ status = ""
    /\ pc = "readFile"
    /\ run = 1
    /\ types = <<>>
    /\ less = <<>>

\* lines 198-201: read the file; an empty vector ends the run
ReadFile ==
    /\ pc = "readFile"
    /\ lines' = file
    /\ IF file = <<>>
       THEN status' = "failed to read from file" /\ pc' = "return"
       ELSE status' = status /\ pc' = "findIncludes"
    /\ UNCHANGED <<file, input, begin, end, includeBegin, includeEnd, run,
                   types, less>>

\* lines 202-205: locate the block; begin >= end ends the run
FindIncludes ==
    /\ pc = "findIncludes"
    /\ \E be \in {findIncludes(lines)} :
           /\ begin' = be[1]
           /\ end' = be[2]
           /\ IF be[1] >= be[2]
              THEN status' = "no includes found" /\ pc' = "return"
              ELSE status' = status /\ pc' = "deleteEmptyLines"
    /\ UNCHANGED <<file, input, lines, includeBegin, includeEnd, run, types,
                   less>>

\* line 206
DeleteEmptyLines ==
    /\ pc = "deleteEmptyLines"
    /\ lines' = deleteEmptyLines(lines, begin, end)
    /\ pc' = "sort"
    /\ UNCHANGED <<file, input, begin, end, includeBegin, includeEnd, status,
                   run, types, less>>

\* line 207: std::sort(begin, end, cmp)
Sort ==
    /\ pc = "sort"
    /\ \E t \in sortOutcomes(SubSeq(lines, begin + 1, end)) :
          lines' = SubSeq(lines, 1, begin) \o t
                   \o SubSeq(lines, end + 1, Len(lines))
    /\ pc' = "write"
    /\ UNCHANGED <<file, input, begin, end, includeBegin, includeEnd, status,
                   run, types, less>>

\* lines 208-209: re-locate the block, write the file, return "done"
Write ==
    /\ pc = "write"
    /\ \E be \in {findIncludes(lines)} :
           /\ includeBegin' = be[1]
           /\ includeEnd' = be[2]
           /\ file' = writeFrom(lines, 0, be[1], be[2])
    /\ status' = "done"
    /\ pc' = "return"
    /\ UNCHANGED <<input, lines, begin, end, run, types, less>>

\* the program is run once more on the file it has just rewritten
Rerun ==
    /\ pc = "return"
    /\ status = "done"
    /\ run = 1
    /\ run' = 2
    /\ input' = file
    /\ lines' = <<>>
    /\ begin' = 0
    /\ end' = 0
    /\ includeBegin' = 0
    /\ includeEnd' = 0
    /\ status' = ""
    /\ pc' = "readFile"
    /\ UNCHANGED <<file, types, less>>

Next ==
    \/ ReadFile
    \/ FindIncludes
    \/ DeleteEmptyLines
    \/ Sort
    \/ Write
    \/ Rerun

Spec == Init /\ [][Next]_vars

----------------------------------------------------------------------------
(* The classifier and the comparator on their own: CmpLines lines are drawn *)
(* from Universe, classified and compared pairwise, then sorted with cmp.   *)

InitCmp ==
    /\ input \in [1..CmpLines -> Universe]
    /\ lines = input
    /\ file = <<>>
    /\ begin = 0
    /\ end = CmpLines
    /\ includeBegin = 0
    /\ includeEnd = 0
    /\ status = ""
    /\ pc = "cmp"
    /\ run = 1
    /\ types = <<>>
    /\ less = <<>>

\* moduleType of every drawn line, cmp of every ordered pair
Compare ==
    /\ pc = "cmp"
    /\ types' = [i \in 1..Len(input) |-> moduleType(input[i])]
    /\ less' = [i \in 1..Len(input) |->
                  [j \in 1..Len(input) |-> cmp(input[i], input[j])]]
    /\ pc' = "compared"
    /\ UNCHANGED <<file, input, lines, begin, end, includeBegin, includeEnd,
                   status, run>>

\* std::sort over the drawn lines
SortDrawn ==
    /\ pc = "compared"
    /\ lines' \in sortOutcomes(lines)
    /\ pc' = "sorted"
    /\ UNCHANGED <<file, input, begin, end, includeBegin, includeEnd, status,
                   run, types, less>>

NextCmp ==
    \/ Compare
    \/ SortDrawn

SpecCmp == InitCmp /\ [][NextCmp]_vars

----------------------------------------------------------------------------
(* Vocabulary of the properties. *)

\* empty, or nothing but whitespace
Blank(l) == \A k \in 1..Len(l) : isspace(l[k])

\* the text without whitespace starts with `//`
PureComment(l) ==
    LET s == SelectSeq(l, LAMBDA ch : ~isspace(ch))
    IN  Len(s) >= 2 /\ s[1] = 47 /\ s[2] = 47

\* `"github.com/`, `"gopkg.in/`, `"golang.org/`, `"pault.ag/`
ThirdPartyPrefixes ==
    {<<34, 103, 105, 116, 104, 117, 98, 46, 99, 111, 109, 47>>,
     <<34, 103, 111, 112, 107, 103, 46, 105, 110, 47>>,
     <<34, 103, 111, 108, 97, 110, 103, 46, 111, 114, 103, 47>>,
     <<34, 112, 97, 117, 108, 116, 46, 97, 103, 47>>}

\* l[i..] starts with p
StartsAt(l, i, p) ==
    /\ i + Len(p) - 1 <= Len(l)
    /\ \A k \in 1..Len(p) : l[i + k - 1] = p[k]

Mentions(l, p) == \E i \in 1..Len(l) : StartsAt(l, i, p)

MentionsThirdParty(l) == \E p \in ThirdPartyPrefixes : Mentions(l, p)

\* `"platform/`
MentionsPlatform(l) ==
    Mentions(l, <<34, 112, 108, 97, 116, 102, 111, 114, 109, 47>>)

\* the cases the None rule names: blank, the sentinel, a pure comment
NoneCase(l) == Blank(l) \/ l = g_deleted_line \/ PureComment(l)

\* the first of the rules ThirdParty, Platform, StdLib that the line matches
FirstMatch(l) ==
    IF MentionsThirdParty(l) THEN ThirdParty
    ELSE IF MentionsPlatform(l) THEN Platform
    ELSE StdLib

Drawn == 1..Len(input)

\* the line without whitespace, cut before its first `//`
Stripped(l) ==
    LET t == SelectSeq(l, LAMBDA ch : ~isspace(ch))
        cuts == {i \in 1..Len(t) : StartsAt(t, i, <<47, 47>>)}
    IN  IF cuts = {} THEN t
        ELSE SubSeq(t, 1, (CHOOSE i \in cuts : \A j \in cuts : i <= j) - 1)

\* `import(`
IsOpen(l) == Stripped(l) = <<105, 109, 112, 111, 114, 116, 40>>

\* `)`
IsClose(l) == Stripped(l) = <<41>>

\* some `import(` line has a `)` line after it
HasPair(f) ==
    \E i, j \in 1..Len(f) : i < j /\ IsOpen(f[i]) /\ IsClose(f[j])

\* the position after the first `import(` line of f (after the last line
\* when there is none)
BlockFirst(f) ==
    CHOOSE b \in 1..(Len(f) + 1) :
        /\ \A i \in 1..(b - 2) : ~IsOpen(f[i])
        /\ b = Len(f) + 1 \/ (b >= 2 /\ IsOpen(f[b - 1]))

\* the position before the first `)` line of f from position b on (the last
\* line when there is none)
BlockLast(f, b) ==
    CHOOSE e \in (b - 1)..Len(f) :
        /\ \A i \in b..e : ~IsClose(f[i])
        /\ e = Len(f) \/ IsClose(f[e + 1])

\* the block of a file as positions <<first, last>> of its lines; first > last
\* when the block is empty
BlockOf(f) ==
    CHOOSE blk \in {<<b, BlockLast(f, b)>> : b \in {BlockFirst(f)}} : TRUE

\* the import path key: no whitespace, and from the first quotation mark on
PathKey(l) ==
    LET t == SelectSeq(l, LAMBDA ch : ~isspace(ch))
        quotes == {i \in 1..Len(t) : t[i] = 34}
    IN  IF quotes = {} THEN t
        ELSE SubSeq(t, CHOOSE i \in quotes : \A j \in quotes : i <= j, Len(t))

\* how often l occurs among s[a..b]
Count(s, a, b, l) == Cardinality({i \in a..b : s[i] = l})

\* how many blank lines there are among s[a..b]
Blanks(s, a, b) == Cardinality({i \in a..b : Blank(s[i])})

\* formatFile has returned "done"
Done == pc = "return" /\ status = "done"

\* positions in `lines` of the range [begin, end)
InBlock == (begin + 1)..end

\* positions of the lines of the range that are not the sentinel
Kept == {i \in InBlock : lines[i] # g_deleted_line}

\* positions of the block in the file as written
OutBlock == BlockOf(file)[1]..BlockOf(file)[2]

\* a category boundary: the categories differ and neither is None
Boundary(a, b) ==
    /\ moduleType(a) # None
    /\ moduleType(b) # None
    /\ moduleType(a) # moduleType(b)

----------------------------------------------------------------------------
(* C7 *)

\* C7 (as claimed): moduleType is None for every blank line, for the sentinel
\* and for every pure comment line; every other line gets ThirdParty,
\* Platform or StdLib by first match.
C7_NoneForEveryComment ==
    pc \in {"compared", "sorted"} =>
        \A i \in Drawn :
            types[i] = IF NoneCase(input[i]) THEN None
                       ELSE FirstMatch(input[i])

\* C7 (amended): the substring rules come first.  A line that contains a
\* third-party prefix is ThirdParty and one that contains `"platform/` is
\* Platform, pure comment or not; of the remaining lines the blank ones, the
\* sentinel and the pure comments are None and all others are StdLib.
C7_SubstringRulesFirst ==
    pc \in {"compared", "sorted"} =>
        \A i \in Drawn :
            types[i] = IF MentionsThirdParty(input[i]) THEN ThirdParty
                       ELSE IF MentionsPlatform(input[i]) THEN Platform
                       ELSE IF NoneCase(input[i]) THEN None
                       ELSE StdLib

\* a commented-out third-party import, a plain comment and the sentinel have
\* been classified
C7_Witness ==
    /\ pc = "compared"
    /\ \E i \in Drawn : PureComment(input[i]) /\ types[i] = ThirdParty
    /\ \E i \in Drawn : PureComment(input[i]) /\ types[i] = None
    /\ \E i \in Drawn : input[i] = g_deleted_line /\ types[i] = None

----------------------------------------------------------------------------
(* C8 *)

Incomparable(i, j) == ~less[i][j] /\ ~less[j][i]

\* C8: cmp is a strict weak ordering (irreflexive, asymmetric, transitive,
\* with transitive incomparability) in which the sentinel is less than
\* nothing and every other line is less than the sentinel; after the sort the
\* sentinels are a suffix of the sorted range.
C8_CmpStrictWeakOrder ==
    /\ pc \in {"compared", "sorted"} =>
        /\ \A i \in Drawn : ~less[i][i]
        /\ \A i, j \in Drawn : less[i][j] => ~less[j][i]
        /\ \A i, j, k \in Drawn : less[i][j] /\ less[j][k] => less[i][k]
        /\ \A i, j, k \in Drawn :
              Incomparable(i, j) /\ Incomparable(j, k) => Incomparable(i, k)
        /\ \A i, j \in Drawn :
              input[i] = g_deleted_line => ~less[i][j]
        /\ \A i, j \in Drawn :
              input[i] # g_deleted_line /\ input[j] = g_deleted_line
                  => less[i][j]
    /\ pc = "sorted" =>
        \A i, j \in 1..Len(lines) :
            i < j /\ lines[i] = g_deleted_line => lines[j] = g_deleted_line

\* a sentinel drawn first, with real lines after it, has been sorted to the end
C8_Witness ==
    /\ pc = "sorted"
    /\ input[1] = g_deleted_line
    /\ \E i \in Drawn : input[i] # g_deleted_line
    /\ lines[Len(lines)] = g_deleted_line
    /\ lines[1] # g_deleted_line

----------------------------------------------------------------------------
(* C1 *)

\* C1 (as claimed): a second run on the file a "done" run has written leaves
\* the file byte-identical, whatever the sort does with equal elements.
C1_SecondRunIdentical ==
    run = 2 /\ pc = "return" => file = input

----------------------------------------------------------------------------
(* C2 *)

\* C2: after "done", of two kept lines of the block with different categories
\* the one of lower rank (StdLib < Platform < ThirdParty < None) is at the
\* smaller index, and the kept None lines are comment lines.
C2_CategoryOrder ==
    Done =>
        \A category \in {[i \in Kept |-> moduleType(lines[i])]} :
            /\ \A i, j \in DOMAIN category :
                  category[i] < category[j] => i < j
            /\ \A i \in DOMAIN category :
                  category[i] = None => PureComment(lines[i])

\* a closed block that held the three import categories, a higher category
\* before a lower one, has been sorted
C2_Witness ==
    /\ Done
    /\ run = 1
    /\ end < Len(input)
    /\ {StdLib, Platform, ThirdParty} \subseteq {moduleType(lines[i]) : i \in Kept}
    /\ \E i, j \in InBlock :
          i < j /\ moduleType(input[i]) > moduleType(input[j])

----------------------------------------------------------------------------
(* C3 *)

\* C3: after "done", the path keys of the kept lines of one category are in
\* non-decreasing lexicographic order by index; `j "fmt"` and `"fmt"` get the
\* same key from removeUserModuleName(removeSpaces(line)).
C3_AlphabeticalWithinCategory ==
    Done =>
        \A category \in {[i \in Kept |-> moduleType(lines[i])]},
           key \in {[i \in Kept |-> PathKey(lines[i])]} :
            /\ \A i, j \in DOMAIN key :
                  i < j /\ category[i] = category[j]
                      => ~strLess(key[j], key[i])
            /\ \A i, j \in DOMAIN key :
                  lines[i] = L_jfmt /\ lines[j] = L_fmt
                      => removeUserModuleName(removeSpaces(lines[i]))
                             = removeUserModuleName(removeSpaces(lines[j]))

\* a closed block has been sorted in which an aliased import stood after a
\* line of its category with a greater path key, although the alias itself
\* is greater than that line's text
C3_Witness ==
    /\ Done
    /\ run = 1
    /\ end < Len(input)
    /\ \E i, j \in InBlock :
          /\ i < j
          /\ input[j] = L_jfmt
          /\ moduleType(input[i]) = moduleType(input[j])
          /\ strLess(PathKey(input[j]), PathKey(input[i]))
          /\ strLess(removeSpaces(input[i]), removeSpaces(input[j]))

----------------------------------------------------------------------------
(* C4 *)

\* C4: in the file as written, every blank line of the block is an empty line
\* that stands between two non-blank lines of the block at a category
\* boundary; two adjacent non-blank lines of the block are not at a category
\* boundary; and the lines outside the block hold as many blank lines as
\* they did in the input.
C4_SeparatorsOnlyAtBoundaries ==
    Done =>
        \A blk \in {BlockOf(file)} : \A block \in {blk[1]..blk[2]} :
            /\ \A i \in block :
                  Blank(file[i]) =>
                      /\ file[i] = <<>>
                      /\ i - 1 \in block
                      /\ i + 1 \in block
                      /\ ~Blank(file[i - 1])
                      /\ ~Blank(file[i + 1])
                      /\ Boundary(file[i - 1], file[i + 1])
            /\ \A i \in block :
                  i + 1 \in block /\ ~Blank(file[i]) /\ ~Blank(file[i + 1])
                      => ~Boundary(file[i], file[i + 1])
            /\ Blanks(file, 1, blk[1] - 1) + Blanks(file, blk[2] + 1, Len(file))
               = Blanks(input, 1, begin) + Blanks(input, end + 1, Len(input))

\* a block with a blank line, a category boundary and a comment after an
\* import has been written
C4_Witness ==
    /\ Done
    /\ run = 1
    /\ \E i \in InBlock : Blank(input[i])
    /\ \E i \in OutBlock : file[i] = <<>>
    /\ \E i \in OutBlock :
          /\ i + 1 \in OutBlock
          /\ moduleType(file[i]) # None
          /\ PureComment(file[i + 1])

----------------------------------------------------------------------------
(* C5 *)

\* C5: after "done", the lines before the block (the `import(` line
\* included) and the lines from the closing delimiter on are the input's, in
\* the buffer and in the file as written.
C5_SurroundingsUntouched ==
    Done =>
        /\ Len(lines) = Len(input)
        /\ \A i \in 1..Len(lines) : i \notin InBlock => lines[i] = input[i]
        /\ Len(file) >= begin + (Len(input) - end)
        /\ SubSeq(file, 1, begin) = SubSeq(input, 1, begin)
        /\ SubSeq(file, Len(file) - (Len(input) - end) + 1, Len(file))
               = SubSeq(input, end + 1, Len(input))

\* a file with a line before `import(`, a blank last line after `)` and a
\* block that changed has been written
C5_Witness ==
    /\ Done
    /\ run = 1
    /\ begin >= 2
    /\ end + 1 < Len(input)
    /\ Blank(input[Len(input)])
    /\ file # input

----------------------------------------------------------------------------
(* C6 *)

\* C6 (as claimed): a non-empty file without an `import(` line that has a
\* `)` line after it gets "no includes found" and is left as it was.
C6_NoPairNoIncludes ==
    pc = "return" /\ input # <<>> /\ ~HasPair(input)
        => status = "no includes found" /\ file = input

----------------------------------------------------------------------------
(* C9 *)

\* C9: the bounds the renderer re-locates are the bounds formatFile computed,
\* and the delimiter lines are where and what they were, in the buffer and
\* in the file as written.
C9_BoundsInvariant ==
    Done =>
        /\ includeBegin = begin
        /\ includeEnd = end
        /\ begin >= 1
        /\ IsOpen(lines[begin])
        /\ lines[begin] = input[begin]
        /\ file[begin] = input[begin]
        /\ end < Len(input) =>
              /\ IsClose(lines[end + 1])
              /\ lines[end + 1] = input[end + 1]
              /\ file[Len(file) - (Len(input) - end) + 1] = input[end + 1]

\* a closed block in which a blank line was replaced by the sentinel and
\* another line was moved by the sort has been written
C9_Witness ==
    /\ Done
    /\ run = 1
    /\ end < Len(input)
    /\ \E i \in InBlock : lines[i] = g_deleted_line
    /\ \E i \in Kept : lines[i] # input[i]

----------------------------------------------------------------------------
(* C10 *)

\* C10: after "done", every non-blank line occurs in the block of the file
\* as written as often as in the input's block; the file has the input's
\* number of lines less the blank lines of the input's block plus the blank
\* lines of the written block, which are at most 2.
C10_NoImportLostOrDuplicated ==
    Done =>
        \A blk \in {BlockOf(file)} :
        \A separators \in {Blanks(file, blk[1], blk[2])} :
            /\ \A l \in {input[i] : i \in InBlock}
                          \cup {file[i] : i \in blk[1]..blk[2]} :
                  ~Blank(l) =>
                      Count(file, blk[1], blk[2], l)
                          = Count(input, begin + 1, end, l)
            /\ Len(file) = Len(input) - Blanks(input, begin + 1, end)
                              + separators
            /\ separators <= 2

\* a closed block of three categories, out of order in the input, has been
\* written with two separators
C10_Witness ==
    /\ Done
    /\ run = 1
    /\ end < Len(input)
    /\ Blanks(file, BlockOf(file)[1], BlockOf(file)[2]) = 2
    /\ SubSeq(lines, begin + 1, end) # SubSeq(input, begin + 1, end)

====
